---------------------------- MODULE Spec2Model ----------------------------
(***************************************************************************)
(* Model of the laconia agent: the Kafka wire-protocol frame codec, the    *)
(* request-header decoder, the handler registry, the built-in handlers and *)
(* the per-connection read / decode / handle / encode / write loop.        *)
(*                                                                         *)
(* Buffers are sequences of bytes (0..255).  A decoder is an operator from *)
(* a buffer to a result record                                             *)
(*     [st |-> "ok", val |-> v, rest |-> remaining buffer]                 *)
(*     [st |-> "err", ...]    the decoder returned Err(io::Error)          *)
(*     [st |-> "panic", ...]  the decoder panicked (bytes::Buf underflow,  *)
(*                            split_to out of bounds, todo!())            *)
(***************************************************************************)
EXTENDS Integers, Sequences, FiniteSets, TLC

\* ------------------------------------------------------------------ bounds

\* Frames a peer writes on its connection.
MaxRequests == 2

\* Frames fed to the frame codec on its own (SpecCodec), and the length of
\* the longest payload among them.
MaxCodecFrames == 2

MaxPayloadLen == 2

\* Bytes after the last field of a request, at most.
MaxTrailing == 1

\* Calls of register while a registry is filled (SpecRegistry).
MaxRegistrations == 3

\* Calls of codec functions made on their own (SpecCalls).
MaxCalls == 1

\* ------------------------------------------------------- byte-level helpers

Byte == 0..255

Drop(s, n) == SubSeq(s, n + 1, Len(s))

Take(s, n) == SubSeq(s, 1, n)

OkR(v, r) == [st |-> "ok", val |-> v, rest |-> r]

\* Err(io::Error); rest is the buffer as the failing call left it.
ErrR(msg, r) == [st |-> "err", val |-> msg, rest |-> r]

\* A panic; rest is the buffer as the panicking call found it.
PanicR(msg, r) == [st |-> "panic", val |-> msg, rest |-> r]

\* `let x = r?; F(x)`: the Err or the panic of r, or what F makes of its Ok.
Try(r, F(_)) == IF r.st # "ok" THEN r ELSE F(r)

\* `let x = r; F(x)`.
Let(r, F(_)) == F(r)

\* i16::from_be_bytes
I16FromBytes(b1, b2) ==
    IF b1 >= 128 THEN (b1 - 256) * 256 + b2 ELSE b1 * 256 + b2

\* i32::from_be_bytes
I32FromBytes(b1, b2, b3, b4) ==
    (IF b1 >= 128 THEN b1 - 256 ELSE b1) * 16777216 + b2 * 65536 + b3 * 256 + b4

\* BufMut::put_i16: big-endian two's complement.
put_i16(x) ==
    LET u == IF x < 0 THEN x + 65536 ELSE x
    IN  << u \div 256, u % 256 >>

\* BufMut::put_i32: big-endian two's complement.
put_i32(x) ==
    LET hi == IF x < 0 THEN (x + 2147483647 + 1) \div 16777216 + 128
                       ELSE x \div 16777216
        lo == IF x < 0 THEN (x + 2147483647 + 1) % 16777216 ELSE x % 16777216
    IN  << hi, lo \div 65536, (lo \div 256) % 256, lo % 256 >>

\* Buf::get_i16: panics when fewer than 2 bytes remain.
get_i16(buf) ==
    IF Len(buf) < 2 THEN PanicR("get_i16: buffer underflow", buf)
    ELSE OkR(I16FromBytes(buf[1], buf[2]), Drop(buf, 2))

\* Buf::get_i32: panics when fewer than 4 bytes remain.
get_i32(buf) ==
    IF Len(buf) < 4 THEN PanicR("get_i32: buffer underflow", buf)
    ELSE OkR(I32FromBytes(buf[1], buf[2], buf[3], buf[4]), Drop(buf, 4))

\* Buf::get_u32 followed by `as usize`.  The value is kept as its 32-bit
\* two's-complement wrap: a negative number stands for a length >= 2^31,
\* larger than any buffer.
get_u32(buf) ==
    IF Len(buf) < 4 THEN PanicR("get_u32: buffer underflow", buf)
    ELSE OkR(I32FromBytes(buf[1], buf[2], buf[3], buf[4]), Drop(buf, 4))

\* `buf.len() < n` for a length n held as a 32-bit wrap (see get_u32).
LenLess(buf, n) == n < 0 \/ Len(buf) < n

\* n - 1 for a length or count n held as a 32-bit wrap: a count >= 2^31
\* stays larger than any buffer.
LoopDec(n) == IF n < 0 THEN n ELSE n - 1

\* String::from_utf8: is the byte string well-formed UTF-8.
RECURSIVE ValidUtf8(_)
ValidUtf8(s) ==
    LET Cont(i) == i <= Len(s) /\ s[i] >= 128 /\ s[i] <= 191
        In(i, lo, hi) == i <= Len(s) /\ s[i] >= lo /\ s[i] <= hi
    IN  IF s = <<>> THEN TRUE
        ELSE IF s[1] < 128 THEN ValidUtf8(Drop(s, 1))
        ELSE IF s[1] >= 194 /\ s[1] <= 223
            THEN Cont(2) /\ ValidUtf8(Drop(s, 2))
        ELSE IF s[1] = 224
            THEN In(2, 160, 191) /\ Cont(3) /\ ValidUtf8(Drop(s, 3))
        ELSE IF s[1] = 237
            THEN In(2, 128, 159) /\ Cont(3) /\ ValidUtf8(Drop(s, 3))
        ELSE IF s[1] >= 225 /\ s[1] <= 239
            THEN Cont(2) /\ Cont(3) /\ ValidUtf8(Drop(s, 3))
        ELSE IF s[1] = 240
            THEN In(2, 144, 191) /\ Cont(3) /\ Cont(4) /\ ValidUtf8(Drop(s, 4))
        ELSE IF s[1] >= 241 /\ s[1] <= 243
            THEN Cont(2) /\ Cont(3) /\ Cont(4) /\ ValidUtf8(Drop(s, 4))
        ELSE IF s[1] = 244
            THEN In(2, 128, 143) /\ Cont(3) /\ Cont(4) /\ ValidUtf8(Drop(s, 4))
        ELSE FALSE

\* --------------------------------------------------------------- primitives

\* integer_encoding::VarIntReader::read_varint::<u32> over buf.reader():
\* bytes are read one at a time until one has its top bit clear; at most 5
\* are accepted; the value is the low 32 bits of the 7-bit groups, kept as
\* its 32-bit wrap (see get_u32).
read_varint(buf) ==
    IF buf = <<>> THEN ErrR("Reached EOF", buf)
    ELSE LET upto == IF Len(buf) < 5 THEN Len(buf) ELSE 5
             stops == {i \in 1..upto : buf[i] < 128}
         IN  IF stops = {}
             THEN IF Len(buf) > 5 THEN ErrR("Unterminated varint", Drop(buf, 6))
                                  ELSE ErrR("Reached EOF", <<>>)
             ELSE LET n == CHOOSE i \in stops : \A j \in stops : i <= j
                      g(k) == IF k <= n THEN buf[k] % 128 ELSE 0
                      low == g(1) + g(2) * 128 + g(3) * 16384 + g(4) * 2097152
                      h == IF n = 5 THEN buf[5] % 16 ELSE 0
                      hi == IF h >= 8 THEN h - 16 ELSE h
                  IN  OkR(hi * 268435456 + low, Drop(buf, n))

\* integer_encoding::VarIntWriter::write_varint for a small u32.
RECURSIVE write_varint(_)
write_varint(n) ==
    IF n < 128 THEN << n >> ELSE << 128 + (n % 128) >> \o write_varint(n \div 128)

\* impl Decoder for bool
bool_decode(buf) ==
    IF buf = <<>> THEN PanicR("get_u8: buffer underflow", buf)
    ELSE IF buf[1] = 0 THEN OkR(FALSE, Drop(buf, 1))
    ELSE IF buf[1] = 1 THEN OkR(TRUE, Drop(buf, 1))
    ELSE ErrR("invalid bool value", Drop(buf, 1))

\* impl Decoder for i16
i16_decode(buf) ==
    IF Len(buf) < 2 THEN ErrR("not enough data", buf) ELSE get_i16(buf)

\* impl Decoder for Uuid
Uuid_decode(buf) ==
    IF Len(buf) < 16 THEN ErrR("not enough data", buf)
    ELSE OkR(Take(buf, 16), Drop(buf, 16))

\* The tail shared by the string decoders: split_to(len), String::from_utf8.
StrTail(buf, len) ==
    IF ValidUtf8(Take(buf, len)) THEN OkR(Take(buf, len), Drop(buf, len))
    ELSE ErrR("invalid utf-8", Drop(buf, len))

\* impl Decoder for String (i16 length prefix)
String_decode(buf) ==
    IF Len(buf) < 4 THEN ErrR("not enough data for string length", buf)
    ELSE Try(i16_decode(buf), LAMBDA l :
             IF LenLess(l.rest, l.val)
             THEN ErrR("not enough bytes for string data", l.rest)
             ELSE StrTail(l.rest, l.val))

\* impl Decoder for NullableString
NullableString_decode(buf) ==
    IF Len(buf) < 2 THEN ErrR("not enough data for nullable string length", buf)
    ELSE Try(get_i16(buf), LAMBDA l :
             IF l.val = -1 THEN OkR(<<>>, l.rest)
             ELSE IF LenLess(l.rest, l.val)
             THEN ErrR("not enough data for nullable string data", l.rest)
             ELSE StrTail(l.rest, l.val))

\* impl Decoder for CompactString
CompactString_decode(buf) ==
    Try(read_varint(buf), LAMBDA l :
        IF l.val = 0 THEN ErrR("zero-length compact string", l.rest)
        ELSE IF LenLess(l.rest, LoopDec(l.val))
        THEN ErrR("not enough bytes for compact string data", l.rest)
        ELSE StrTail(l.rest, LoopDec(l.val)))

\* impl Decoder for CompactNullableString
CompactNullableString_decode(buf) ==
    Try(read_varint(buf), LAMBDA l :
        IF l.val = 0 THEN OkR(<<>>, l.rest)
        ELSE IF LenLess(l.rest, LoopDec(l.val))
        THEN ErrR("not enough bytes for string data", l.rest)
        ELSE StrTail(l.rest, LoopDec(l.val)))

\* impl Encoder for CompactNullableString
CompactNullableString_encode(s) ==
    IF Len(s) = 0 THEN write_varint(0) ELSE write_varint(Len(s) + 1) \o s

\* impl Decoder for BTreeMap<i32, Bytes>: the loop body, n entries left.
\* BytesMut::split_to panics when size exceeds the buffer; insert replaces
\* the value of a tag already present.
RECURSIVE TaggedLoop(_, _, _)
TaggedLoop(buf, n, m) ==
    IF n = 0 THEN OkR(m, buf)
    ELSE Try(read_varint(buf), LAMBDA tag :
         Try(read_varint(tag.rest), LAMBDA size :
             IF LenLess(size.rest, size.val)
             THEN PanicR("split_to out of bounds", size.rest)
             ELSE TaggedLoop(Drop(size.rest, size.val), LoopDec(n),
                             (tag.val :> Take(size.rest, size.val)) @@ m)))

\* impl Decoder for BTreeMap<i32, Bytes>
TaggedFields_decode(buf) ==
    Try(read_varint(buf), LAMBDA num : TaggedLoop(num.rest, num.val, << >>))

\* impl Encoder for BTreeMap<i32, Bytes>
TaggedFields_encode(m) ==
    IF DOMAIN m # {} THEN PanicR("cannot send non-empty tagged fields", <<>>)
    ELSE OkR(write_varint(0), <<>>)

\* ---------------------------------------------------------- message schemas

\* The request types a handler can be registered for.
RequestTypes == {"Metadata", "FindCoordinator", "ApiVersions"}

\* Message::VERSIONS of each request type.
VERSIONS(req) ==
    CASE req = "ApiVersions" -> [min |-> 0, max |-> 4]
      [] req = "Metadata" -> [min |-> 0, max |-> 13]
      [] req = "FindCoordinator" -> [min |-> 0, max |-> 6]

\* VersionRange::contains
contains(range, version) == range.min <= version /\ version <= range.max

\* header_version with Metadata flexible from version 8 on.
header_version_Metadata8(req, version) ==
    CASE req = "ApiVersions" -> IF version < 3 THEN 1 ELSE 2
      [] req = "Metadata" -> IF version < 8 THEN 1 ELSE 2
      [] req = "FindCoordinator" -> IF version > 2 THEN 2 ELSE 1

\* Message::header_version of each request type.
header_version(req, version) ==
    CASE req = "ApiVersions" -> IF version < 3 THEN 1 ELSE 2
      [] req = "Metadata" -> IF version < 9 THEN 1 ELSE 2
      [] req = "FindCoordinator" -> IF version > 2 THEN 2 ELSE 1

\* A field read only when `present`, left at its default otherwise.
Gated(present, dec(_), default, buf) ==
    IF present THEN dec(buf) ELSE OkR(default, buf)

\* ApiVersionsRequest::decode
ApiVersionsRequest_decode(buf, version) ==
    Try(Gated(~(version < 3), CompactString_decode, <<>>, buf), LAMBDA name :
    Try(Gated(~(version < 3), CompactString_decode, <<>>, name.rest), LAMBDA ver :
    Try(Gated(version > 2, TaggedFields_decode, << >>, ver.rest), LAMBDA tf :
    OkR([client_software_name |-> name.val,
         client_software_version |-> ver.val,
         tagged_fields |-> tf.val], tf.rest))))

Uuid_nil == [i \in 1..16 |-> 0]

\* MetadataRequestTopic::decode
MetadataRequestTopic_decode(buf, version) ==
    Try(Gated(version > 9, Uuid_decode, Uuid_nil, buf), LAMBDA id :
    Try(IF version < 9 THEN String_decode(id.rest)
        ELSE IF version < 10 THEN CompactString_decode(id.rest)
        ELSE CompactNullableString_decode(id.rest), LAMBDA name :
    Try(Gated(version > 8, TaggedFields_decode, << >>, name.rest), LAMBDA tf :
    OkR([topic_id |-> id.val, name |-> name.val, tagged_fields |-> tf.val],
        tf.rest))))

\* `for _ in 0..length { array.push(T::decode(buf, version)?) }` for
\* T = MetadataRequestTopic.  Vec::with_capacity(length) is taken to succeed.
RECURSIVE TopicsLoop(_, _, _, _)
TopicsLoop(buf, n, version, acc) ==
    IF n = 0 THEN OkR(acc, buf)
    ELSE Try(MetadataRequestTopic_decode(buf, version), LAMBDA t :
             TopicsLoop(t.rest, LoopDec(n), version, Append(acc, t.val)))

\* impl DecoderVersioned for Vec<T>, T = MetadataRequestTopic
Vec_decode(buf, version) ==
    IF Len(buf) < 4 THEN ErrR("not enough data for array length", buf)
    ELSE Try(get_u32(buf), LAMBDA l : TopicsLoop(l.rest, l.val, version, <<>>))

\* impl DecoderVersioned for CompactArray<T>, T = MetadataRequestTopic
CompactArray_decode(buf, version) ==
    Try(read_varint(buf), LAMBDA l :
        IF l.val = 0 THEN ErrR("compact array length is 0", l.rest)
        ELSE TopicsLoop(l.rest, LoopDec(l.val), version, <<>>))

\* MetadataRequest::decode that goes on reading
\* include_cluster_authorized_operations from version 11 on.
MetadataRequest_decode_ClusterOps(buf, version) ==
    IF ~contains(VERSIONS("Metadata"), version) THEN ErrR("invalid version", buf)
    ELSE
    Try(IF version < 9 THEN Vec_decode(buf, version)
        ELSE CompactArray_decode(buf, version), LAMBDA topics :
    Try(Gated(~(version < 4), bool_decode, FALSE, topics.rest), LAMBDA auto :
    Try(Gated(~(version < 8), bool_decode, FALSE, auto.rest),
        LAMBDA cluster :
    Try(Gated(~(version < 8), bool_decode, FALSE, cluster.rest), LAMBDA topic :
    Try(Gated(version > 8, TaggedFields_decode, << >>, topic.rest), LAMBDA tf :
    OkR([topics |-> topics.val,
         allow_auto_topic_creation |-> auto.val,
         include_cluster_authorized_operations |-> cluster.val,
         include_topic_authorized_operations |-> topic.val,
         tagged_fields |-> tf.val], tf.rest))))))

\* MetadataRequest::decode
MetadataRequest_decode(buf, version) ==
    IF ~contains(VERSIONS("Metadata"), version) THEN ErrR("invalid version", buf)
    ELSE
    Try(IF version < 9 THEN Vec_decode(buf, version)
        ELSE CompactArray_decode(buf, version), LAMBDA topics :
    Try(Gated(~(version < 4), bool_decode, FALSE, topics.rest), LAMBDA auto :
    Try(Gated(~(version < 8) /\ version < 11, bool_decode, FALSE, auto.rest),
        LAMBDA cluster :
    Try(Gated(~(version < 8), bool_decode, FALSE, cluster.rest), LAMBDA topic :
    Try(Gated(version > 8, TaggedFields_decode, << >>, topic.rest), LAMBDA tf :
    OkR([topics |-> topics.val,
         allow_auto_topic_creation |-> auto.val,
         include_cluster_authorized_operations |-> cluster.val,
         include_topic_authorized_operations |-> topic.val,
         tagged_fields |-> tf.val], tf.rest))))))

\* FindCoordinatorRequest::decode: todo!()
FindCoordinatorRequest_decode(buf, version) ==
    PanicR("not yet implemented", buf)

\* Req::decode for the request type of a handler.
Req_decode(req, buf, version) ==
    CASE req = "ApiVersions" -> ApiVersionsRequest_decode(buf, version)
      [] req = "Metadata" -> MetadataRequest_decode(buf, version)
      [] req = "FindCoordinator" -> FindCoordinatorRequest_decode(buf, version)

\* ------------------------------------------------------------------ registry

\* A MessageRegistry is its `handlers` map: a function from the registered
\* api keys to the request type of the handler registered under each.

\* MessageRegistry::new
MessageRegistry_new == << >>

\* MessageRegistry::register: BTreeMap::insert, which replaces an old entry.
register(reg, key, req) == (key :> req) @@ reg

\* MessageRegistry::versions
registry_versions(reg, api_key) ==
    IF api_key \in DOMAIN reg THEN OkR(VERSIONS(reg[api_key]), <<>>)
    ELSE ErrR("unsupported api key", <<>>)

\* MessageRegistry::header_version
registry_header_version(reg, api_key, version) ==
    IF api_key \in DOMAIN reg THEN OkR(header_version(reg[api_key], version), <<>>)
    ELSE ErrR("unsupported api key", <<>>)

\* The elements of a set of integers in ascending order (BTreeMap key order).
RECURSIVE Ascending(_)
Ascending(S) ==
    IF S = {} THEN <<>>
    ELSE LET m == CHOOSE x \in S : \A y \in S : x <= y
         IN  << m >> \o Ascending(S \ {m})

\* MessageRegistry::all_api_keys
all_api_keys(reg) == Ascending(DOMAIN reg)

\* ------------------------------------------------------------------ handlers

\* ApiVersionsHandler::new with max_version taken from versions.min.
ApiVersionsHandler_new_MinOnly(reg) ==
    LET keys == all_api_keys(reg)
    IN  [i \in 1..Len(keys) |->
            [api_key |-> keys[i],
             min_version |-> registry_versions(reg, keys[i]).val.min,
             max_version |-> registry_versions(reg, keys[i]).val.min,
             tagged_fields |-> << >>]]

\* ApiVersionsHandler::new: the api_versions list, taken from the registry
\* as it is when the handler is constructed.
ApiVersionsHandler_new(reg) ==
    LET keys == all_api_keys(reg)
    IN  [i \in 1..Len(keys) |->
            [api_key |-> keys[i],
             min_version |-> registry_versions(reg, keys[i]).val.min,
             max_version |-> registry_versions(reg, keys[i]).val.max,
             tagged_fields |-> << >>]]

\* ApiVersionsHandler::handle
ApiVersionsHandler_handle(api_versions, request) ==
    OkR([kind |-> "ApiVersions", error_code |-> 0, api_keys |-> api_versions,
         throttle_time_ms |-> 0, tagged_fields |-> << >>], <<>>)

\* MetadataRequestHandler::handle
MetadataRequestHandler_handle(request) ==
    OkR([kind |-> "Metadata", throttle_time_ms |-> 0, brokers |-> <<>>,
         cluster_id |-> <<>>, controller_id |-> 0, topics |-> <<>>,
         tagged_fields |-> << >>], <<>>)

\* FindCoordinatorHandler::handle: unimplemented!()
FindCoordinatorHandler_handle(request) == PanicR("not implemented", <<>>)

\* TypedRequestHandler::handle: decode the body at header.version, then
\* call the handler.  rest is the frame buffer as the call leaves it.
TypedRequestHandler_handle(req, api_versions, buf, header) ==
    Try(Req_decode(req, buf, header.version), LAMBDA request :
        [ CASE req = "ApiVersions" ->
                   ApiVersionsHandler_handle(api_versions, request.val)
            [] req = "Metadata" -> MetadataRequestHandler_handle(request.val)
            [] req = "FindCoordinator" -> FindCoordinatorHandler_handle(request.val)
          EXCEPT !.rest = request.rest ])

\* MessageRegistry::handle_request
handle_request(reg, api_versions, buf, header) ==
    IF header.api_key \in DOMAIN reg
    THEN TypedRequestHandler_handle(reg[header.api_key], api_versions, buf, header)
    ELSE ErrR("Unsupported api key", buf)

\* -------------------------------------------------------------------- header

\* RequestHeader::decode that reads a tagged-fields block at every header
\* version.
RequestHeader_decode_AlwaysTagged(buf, reg) ==
    IF Len(buf) < 8 THEN ErrR("not enough data for v1 kafka header", buf)
    ELSE
    Try(get_i16(buf), LAMBDA api_key :
    Try(get_i16(api_key.rest), LAMBDA version :
    Try(get_i32(version.rest), LAMBDA correlation_id :
    IF registry_versions(reg, api_key.val).st # "ok"
    THEN ErrR("unsupported api key", correlation_id.rest)
    ELSE
    Try(NullableString_decode(correlation_id.rest), LAMBDA client_id :
    Try(TaggedFields_decode(client_id.rest), LAMBDA tf :
    OkR([api_key |-> api_key.val, version |-> version.val,
         correlation_id |-> correlation_id.val,
         client_id |-> client_id.val, tagged_fields |-> tf.val], tf.rest))))))

\* RequestHeader::decode
RequestHeader_decode(buf, reg) ==
    IF Len(buf) < 8 THEN ErrR("not enough data for v1 kafka header", buf)
    ELSE
    Try(get_i16(buf), LAMBDA api_key :
    Try(get_i16(api_key.rest), LAMBDA version :
    Try(get_i32(version.rest), LAMBDA correlation_id :
    IF registry_versions(reg, api_key.val).st # "ok"
    THEN ErrR("unsupported api key", correlation_id.rest)
    ELSE
    Try(NullableString_decode(correlation_id.rest), LAMBDA client_id :
    Try(Gated(registry_header_version(reg, api_key.val, version.val).val > 1,
              TaggedFields_decode, << >>, client_id.rest), LAMBDA tf :
    OkR([api_key |-> api_key.val, version |-> version.val,
         correlation_id |-> correlation_id.val,
         client_id |-> client_id.val, tagged_fields |-> tf.val], tf.rest))))))

\* KafkaRequest::decode_and_handle.  The result has the status and buffer
\* of the step that ended the call and, in hdr, the result of the header
\* decode; on "ok", val is the KafkaRequest {header, response}.
decode_and_handle(buf, reg, api_versions) ==
    Let(RequestHeader_decode(buf, reg), LAMBDA header :
        IF header.st # "ok"
        THEN [st |-> header.st, val |-> header.val, rest |-> header.rest,
              hdr |-> header]
        ELSE
    Let(handle_request(reg, api_versions, header.rest, header.val), LAMBDA response :
        IF response.st # "ok"
        THEN [st |-> response.st, val |-> response.val, rest |-> response.rest,
              hdr |-> header]
        ELSE [st |-> "ok",
              val |-> [header |-> header.val, response |-> response.val],
              rest |-> response.rest, hdr |-> header]))

\* ----------------------------------------------------------------- responses

\* Bytes put in the buffer by a call that cannot fail.
Put(bytes) == OkR(bytes, <<>>)

RECURSIVE Flatten(_)
Flatten(ss) == IF ss = <<>> THEN <<>> ELSE Head(ss) \o Flatten(Tail(ss))

\* The encoders of `parts` run in order with `?` after each: the first that
\* fails ends the call, otherwise their bytes follow one another.
EncSeq(parts) ==
    LET bad == {i \in 1..Len(parts) : parts[i].st # "ok"}
    IN  IF bad # {} THEN parts[CHOOSE i \in bad : \A j \in bad : i <= j]
        ELSE Put(Flatten([i \in 1..Len(parts) |-> parts[i].val]))

\* impl Encoder for bool
bool_encode(b) == IF b THEN << 1 >> ELSE << 0 >>

\* impl Encoder for CompactString
CompactString_encode(str) == write_varint(Len(str) + 1) \o str

\* impl Encoder for CompactArray<T>: the varint of len + 1, then the items.
CompactArray_encode(items, enc(_)) ==
    EncSeq(<< Put(write_varint(Len(items) + 1)) >>
           \o [i \in 1..Len(items) |-> enc(items[i])])

\* impl Encoder for Vec<T>: the i32 length, then the items.
Vec_encode(items, enc(_)) ==
    EncSeq(<< Put(put_i32(Len(items))) >> \o [i \in 1..Len(items) |-> enc(items[i])])

\* ApiVersionsApiKeys::encode
ApiVersionsApiKeys_encode(k) ==
    EncSeq(<< Put(put_i16(k.api_key)), Put(put_i16(k.min_version)),
              Put(put_i16(k.max_version)), TaggedFields_encode(k.tagged_fields) >>)

\* ApiVersionsResponse::encode
ApiVersionsResponse_encode(r) ==
    EncSeq(<< Put(put_i16(r.error_code)),
              Vec_encode(r.api_keys, ApiVersionsApiKeys_encode),
              Put(put_i32(r.throttle_time_ms)),
              TaggedFields_encode(r.tagged_fields) >>)

\* MetadataResponseBrokers::encode
MetadataResponseBrokers_encode(b) ==
    EncSeq(<< Put(put_i32(b.node_id)), Put(CompactString_encode(b.host)),
              Put(put_i32(b.port)), Put(CompactNullableString_encode(b.rack)),
              TaggedFields_encode(b.tagged_fields) >>)

\* MetadataResponseTopicPartition::encode
MetadataResponseTopicPartition_encode(p) ==
    LET I32(x) == Put(put_i32(x))
    IN  EncSeq(<< Put(put_i16(p.error_code)), Put(put_i32(p.partition_index)),
                  Put(put_i32(p.leader_id)), Put(put_i32(p.leader_epoch)),
                  CompactArray_encode(p.replica_nodes, I32),
                  CompactArray_encode(p.isr_nodes, I32),
                  CompactArray_encode(p.offline_replicas, I32),
                  TaggedFields_encode(p.tagged_fields) >>)

\* MetadataResponseTopic::encode
MetadataResponseTopic_encode(t) ==
    EncSeq(<< Put(put_i16(t.error_code)), Put(CompactString_encode(t.name)),
              Put(bool_encode(t.is_internal)),
              CompactArray_encode(t.partitions, MetadataResponseTopicPartition_encode),
              Put(put_i32(t.topic_authorized_operations)),
              TaggedFields_encode(t.tagged_fields) >>)

\* MetadataResponse::encode
MetadataResponse_encode(r) ==
    EncSeq(<< Put(put_i32(r.throttle_time_ms)),
              CompactArray_encode(r.brokers, MetadataResponseBrokers_encode),
              Put(CompactNullableString_encode(r.cluster_id)),
              Put(put_i32(r.controller_id)),
              CompactArray_encode(r.topics, MetadataResponseTopic_encode),
              TaggedFields_encode(r.tagged_fields) >>)

\* AnyResponse::encode_any: the encoder of the response's own type.  No
\* encoder reads the version it is given.
encode_any(r, version) ==
    IF r.kind = "ApiVersions" THEN ApiVersionsResponse_encode(r)
    ELSE MetadataResponse_encode(r)

\* ResponseHeader::encode
ResponseHeader_encode(header, version) == Put(put_i32(header.correlation_id))

\* i16::MAX
I16_MAX == 32767

\* The header version KafkaResponse::encode hands to ResponseHeader::encode.
HeaderVersionUsed(item) == 1

\* The version KafkaResponse::encode hands to encode_any.
EncodeVersionUsed(item) == I16_MAX

\* KafkaResponse::new with the header's api_key where its correlation_id
\* belongs.
KafkaResponse_new_ApiKey(header, response) ==
    [header |-> [correlation_id |-> header.api_key], response |-> response]

\* KafkaResponse::new
KafkaResponse_new(header, response) ==
    [header |-> [correlation_id |-> header.correlation_id], response |-> response]

\* impl Encoder for KafkaResponse
KafkaResponse_encode(item) ==
    EncSeq(<< ResponseHeader_encode(item.header, HeaderVersionUsed(item)),
              encode_any(item.response, EncodeVersionUsed(item)) >>)

\* ---------------------------------------------------------------- frame codec

\* decode without src.advance(4): the frame is split off the front of the
\* buffer, length prefix and all.
KafkaMessageCodec_decode_NoAdvance(src) ==
    IF Len(src) < 4 THEN [st |-> "ok", some |-> FALSE, val |-> <<>>, rest |-> src]
    ELSE LET len == I32FromBytes(src[1], src[2], src[3], src[4])
         IN  IF LenLess(Drop(src, 4), len)
             THEN [st |-> "ok", some |-> FALSE, val |-> <<>>, rest |-> src]
             ELSE [st |-> "ok", some |-> TRUE, val |-> Take(src, len),
                   rest |-> Drop(src, len)]

\* decode that takes the length with get_i32 instead of peeking at it: the
\* prefix is gone from the buffer when the body has not arrived yet.
KafkaMessageCodec_decode_GetLength(src) ==
    IF Len(src) < 4 THEN [st |-> "ok", some |-> FALSE, val |-> <<>>, rest |-> src]
    ELSE LET len == I32FromBytes(src[1], src[2], src[3], src[4])
         IN  IF LenLess(Drop(src, 4), len)
             THEN [st |-> "ok", some |-> FALSE, val |-> <<>>, rest |-> Drop(src, 4)]
             ELSE [st |-> "ok", some |-> TRUE, val |-> Take(Drop(src, 4), len),
                   rest |-> Drop(src, 4 + len)]

\* impl tokio_util::codec::Decoder for KafkaMessageCodec.  `as usize` of a
\* negative i32 is a length no buffer reaches.  val is the frame yielded
\* (Some) or the string "None"; rest is src as the call leaves it.
KafkaMessageCodec_decode(src) ==
    IF Len(src) < 4 THEN [st |-> "ok", some |-> FALSE, val |-> <<>>, rest |-> src]
    ELSE LET len == I32FromBytes(src[1], src[2], src[3], src[4])
         IN  IF LenLess(Drop(src, 4), len)
             THEN [st |-> "ok", some |-> FALSE, val |-> <<>>, rest |-> src]
             ELSE [st |-> "ok", some |-> TRUE, val |-> Take(Drop(src, 4), len),
                   rest |-> Drop(src, 4 + len)]

\* A decode_eof that yields the bytes left at the end of the stream as a
\* last frame.
KafkaMessageCodec_decode_eof_Remainder(src) ==
    LET r == KafkaMessageCodec_decode(src)
    IN  IF r.some \/ src = <<>> THEN r
        ELSE [st |-> "ok", some |-> TRUE, val |-> src, rest |-> <<>>]

\* tokio_util::codec::Decoder::decode_eof (the default method): decode once
\* more; bytes left over with no frame in them are an error.
KafkaMessageCodec_decode_eof(src) ==
    LET r == KafkaMessageCodec_decode(src)
    IN  IF r.some \/ src = <<>> THEN r
        ELSE [st |-> "err", some |-> FALSE, val |-> <<>>, rest |-> src]

\* An encoder that writes into dst as it goes: a length to be patched
\* later, then the item.
KafkaMessageCodec_encode_InPlace(item, dst) ==
    Let(KafkaResponse_encode(item), LAMBDA buf :
        IF buf.st # "ok" THEN [buf EXCEPT !.val = dst \o put_i32(0)]
        ELSE OkR(dst \o put_i32(Len(buf.val)) \o buf.val, <<>>))

\* impl tokio_util::codec::Encoder<KafkaResponse> for KafkaMessageCodec: the
\* item is encoded into a buffer of its own, then length and buffer are
\* appended to dst.  val is dst as the call leaves it.
KafkaMessageCodec_encode(item, dst) ==
    Let(KafkaResponse_encode(item), LAMBDA buf :
        IF buf.st # "ok" THEN [buf EXCEPT !.val = dst]
        ELSE OkR(dst \o put_i32(Len(buf.val)) \o buf.val, <<>>))

\* ------------------------------------------------------------- server state

VARIABLES
    registry,      \* KafkaServer.registry: api key -> request type of its handler
    registrations, \* history: the api keys register was called with, in order
    api_versions,  \* ApiVersionsHandler.api_versions
    pc,            \* per connection: where its task is
    net,           \* per connection: bytes the peer wrote, not yet read
    peer_fin,      \* per connection: the peer closed its side
    rbuf,          \* per connection: the Framed read buffer
    is_readable,   \* per connection: Framed's is_readable flag
    eof,           \* per connection: Framed's eof flag
    message,       \* per connection: the frame being handled
    wbuf,          \* per connection: the Framed write buffer
    out,           \* per connection: bytes written to the peer
    sent,          \* history: the payloads the peer wrote, in order
    frames,        \* history: the frames the codec yielded, in order
    handled,       \* history: the decode_and_handle result of each frame
    responses,     \* history: the KafkaResponse values encoded, in order
    calls          \* history: calls of codec functions on their own, with results

vars == << registry, registrations, api_versions, pc, net, peer_fin, rbuf, is_readable, eof,
           message, wbuf, out, sent, frames, handled, responses, calls >>

server == << registry, registrations, api_versions >>

\* The connections of Spec: one peer.  Every action takes its connection
\* from the domain of pc, which Init sets.
Conns == {1}

\* KafkaServer::build: Metadata (3) and FindCoordinator (10) are registered,
\* then ApiVersions (18).  The ApiVersionsHandler value handed to
\* register(18, ..) is constructed from the registry before that call runs.
KafkaServer_build ==
    LET r0 == MessageRegistry_new
        r1 == register(r0, 3, "Metadata")
        r2 == register(r1, 10, "FindCoordinator")
        h == ApiVersionsHandler_new(r2)
        r3 == register(r2, 18, "ApiVersions")
    IN  [registry |-> r3, api_versions |-> h, registrations |-> << 3, 10, 18 >>]

\* ------------------------------------------------------------ request frames

\* The fixed 8-byte prefix of a request header.
Prefix(api_key, version, correlation_id) ==
    put_i16(api_key) \o put_i16(version) \o put_i32(correlation_id)

\* client_id "c" and the null client_id, as nullable strings.
ClientC == << 0, 1, 99 >>

ClientNull == << 255, 255 >>

\* Requests that are answered.
Answered ==
    { \* ApiVersions v0 (empty body), under two correlation ids
      Prefix(18, 0, 1) \o ClientNull,
      Prefix(18, 0, 7) \o ClientNull,
      \* ApiVersions v3: flexible header, names "r" and "2", empty tagged block
      Prefix(18, 3, 3) \o ClientC \o << 0 >> \o << 2, 114, 2, 50, 0 >>,
      \* ApiVersions v99 laid out as a flexible request
      Prefix(18, 99, 99) \o ClientC \o << 0 >> \o << 2, 114, 2, 50, 0 >>,
      \* Metadata v0, no topics
      Prefix(3, 0, 300) \o ClientNull \o << 0, 0, 0, 0 >>,
      \* Metadata v12, all topics, under a negative correlation id
      Prefix(3, 12, -2) \o ClientNull \o << 0 >> \o << 1, 1, 0, 0 >>
    }

\* Requests that are not.
Unanswered ==
    { \* ApiVersions v99 laid out as a v0 request
      Prefix(18, 99, 7) \o ClientNull,
      \* Metadata v99
      Prefix(3, 99, 7) \o ClientC \o << 0 >> \o << 1, 1, 0, 0 >>,
      \* FindCoordinator v0
      Prefix(10, 0, 7) \o ClientNull,
      \* an api key nobody registered
      Prefix(999, 0, 1) \o << 0, 0 >>,
      \* client_id of three bytes that are not UTF-8
      Prefix(18, 0, 1) \o << 0, 3, 255, 254, 253 >>
    }

\* The request payloads the peers choose from.
AllRequests == Answered \cup Unanswered

\* A payload as the peer writes it: length-prefixed.
Wire(payload) == put_i32(Len(payload)) \o payload

\* -------------------------------------------------------------------- Init

Init ==
    /\ registry = KafkaServer_build.registry
    /\ registrations = KafkaServer_build.registrations
    /\ calls = <<>>
    /\ api_versions = KafkaServer_build.api_versions
    /\ pc = [c \in Conns |-> "idle"]
    /\ net = [c \in Conns |-> <<>>]
    /\ peer_fin = [c \in Conns |-> FALSE]
    /\ rbuf = [c \in Conns |-> <<>>]
    /\ is_readable = [c \in Conns |-> FALSE]
    /\ eof = [c \in Conns |-> FALSE]
    /\ message = [c \in Conns |-> <<>>]
    /\ wbuf = [c \in Conns |-> <<>>]
    /\ out = [c \in Conns |-> <<>>]
    /\ sent = [c \in Conns |-> <<>>]
    /\ frames = [c \in Conns |-> <<>>]
    /\ handled = [c \in Conns |-> <<>>]
    /\ responses = [c \in Conns |-> <<>>]

\* ----------------------------------------------------------------- actions

\* Frames the peers have written so far, over all connections.
RECURSIVE SentOn(_)
SentOn(C) ==
    IF C = {} THEN 0
    ELSE LET c == CHOOSE x \in C : TRUE IN Len(sent[c]) + SentOn(C \ {c})

TotalSent == SentOn(DOMAIN sent)

\* How many of n available bytes one read of the socket may return: the
\* network has delivered a single byte so far, or all of them.
ReadSizes(n) == {1, n}

\* The task of connection c has ended: the loop was left, or it panicked.
\* Either way the Framed stream is dropped and the socket closed.
Ended(c) == pc[c] \in {"closed", "panicked"}

\* An accept that builds the registry afresh for the connection, with the
\* ApiVersions handler only.
Accept_Register(c) ==
    /\ pc[c] = "idle"
    /\ pc' = [pc EXCEPT ![c] = "read"]
    /\ registry' = register(MessageRegistry_new, 18, "ApiVersions")
    /\ registrations' = Append(registrations, 18)
    /\ api_versions' = ApiVersionsHandler_new(MessageRegistry_new)
    /\ UNCHANGED << calls, net, peer_fin, rbuf, is_readable, eof, message,
                    wbuf, out, sent, frames, handled, responses >>

\* KafkaServer::accept: a peer connects, the listener accepts it and the
\* connection task is spawned.
Accept(c) ==
    /\ pc[c] = "idle"
    /\ pc' = [pc EXCEPT ![c] = "read"]
    /\ UNCHANGED << server, calls, net, peer_fin, rbuf, is_readable, eof, message,
                    wbuf, out, sent, frames, handled, responses >>

\* The peer writes one request frame.
PeerSend(c, payload) ==
    /\ pc[c] # "idle" /\ ~Ended(c) /\ ~peer_fin[c]
    /\ TotalSent < MaxRequests
    /\ net' = [net EXCEPT ![c] = @ \o Wire(payload)]
    /\ sent' = [sent EXCEPT ![c] = Append(@, payload)]
    /\ UNCHANGED << server, calls, pc, peer_fin, rbuf, is_readable, eof, message,
                    wbuf, out, frames, handled, responses >>

\* The peer closes its side of the connection.
PeerClose(c) ==
    /\ pc[c] # "idle" /\ ~Ended(c) /\ ~peer_fin[c]
    /\ peer_fin' = [peer_fin EXCEPT ![c] = TRUE]
    /\ UNCHANGED << server, calls, pc, net, rbuf, is_readable, eof, message,
                    wbuf, out, sent, frames, handled, responses >>

\* stream.next(), reading: FramedRead reads from the socket into its buffer.
\* A read of 0 bytes is the end of the stream: once more and the stream
\* ends (None), which ends the `while let` loop.
SocketRead(c) ==
    /\ pc[c] = "read" /\ ~is_readable[c]
    /\ \/ /\ net[c] # <<>>
          /\ \E k \in ReadSizes(Len(net[c])) :
                /\ rbuf' = [rbuf EXCEPT ![c] = @ \o Take(net[c], k)]
                /\ net' = [net EXCEPT ![c] = Drop(@, k)]
          /\ eof' = [eof EXCEPT ![c] = FALSE]
          /\ is_readable' = [is_readable EXCEPT ![c] = TRUE]
          /\ pc' = pc
       \/ /\ net[c] = <<>> /\ peer_fin[c] /\ ~eof[c]
          /\ eof' = [eof EXCEPT ![c] = TRUE]
          /\ is_readable' = [is_readable EXCEPT ![c] = TRUE]
          /\ UNCHANGED << net, rbuf, pc >>
       \/ /\ net[c] = <<>> /\ peer_fin[c] /\ eof[c]
          /\ pc' = [pc EXCEPT ![c] = "closed"]
          /\ UNCHANGED << net, rbuf, eof, is_readable >>
    /\ UNCHANGED << server, calls, peer_fin, message, wbuf, out, sent, frames,
                    handled, responses >>

\* A read half that goes on decoding while the response of the frame before
\* is still in the write buffer.
FrameDecode_Prefetch(c) ==
    /\ pc[c] \in {"read", "flush"} /\ is_readable[c]
    /\ LET r == IF eof[c] THEN KafkaMessageCodec_decode_eof(rbuf[c])
                ELSE KafkaMessageCodec_decode(rbuf[c])
       IN  /\ rbuf' = [rbuf EXCEPT ![c] = r.rest]
           /\ IF r.some
              THEN /\ message' = [message EXCEPT ![c] = r.val]
                   /\ frames' = [frames EXCEPT ![c] = Append(@, r.val)]
                   /\ pc' = [pc EXCEPT ![c] = "handle"]
                   /\ UNCHANGED is_readable
              ELSE /\ is_readable' = [is_readable EXCEPT ![c] = FALSE]
                   /\ pc' = [pc EXCEPT ![c] =
                                IF pc[c] = "flush" THEN "flush"
                                ELSE IF eof[c] THEN "closed" ELSE "read"]
                   /\ UNCHANGED << message, frames >>
    /\ UNCHANGED << server, calls, net, peer_fin, eof, wbuf, out, sent, handled,
                    responses >>

\* stream.next(), framing: FramedRead calls the codec on its buffer.  A
\* frame is handed to the loop body; without one the stream goes back to
\* reading, or at the end of the stream ends: None, or the decode_eof error,
\* on which the loop breaks.
FrameDecode(c) ==
    /\ pc[c] = "read" /\ is_readable[c]
    /\ LET r == IF eof[c] THEN KafkaMessageCodec_decode_eof(rbuf[c])
                ELSE KafkaMessageCodec_decode(rbuf[c])
       IN  /\ rbuf' = [rbuf EXCEPT ![c] = r.rest]
           /\ IF r.some
              THEN /\ message' = [message EXCEPT ![c] = r.val]
                   /\ frames' = [frames EXCEPT ![c] = Append(@, r.val)]
                   /\ pc' = [pc EXCEPT ![c] = "handle"]
                   /\ UNCHANGED is_readable
              ELSE /\ is_readable' = [is_readable EXCEPT ![c] = FALSE]
                   /\ pc' = [pc EXCEPT ![c] = IF eof[c] THEN "closed" ELSE "read"]
                   /\ UNCHANGED << message, frames >>
    /\ UNCHANGED << server, calls, net, peer_fin, eof, wbuf, out, sent, handled,
                    responses >>

\* A loop body that logs a failed decode_and_handle and goes on to the next
\* frame instead of unwrapping it.
HandleRequest_Continue(c) ==
    /\ pc[c] = "handle"
    /\ LET request == decode_and_handle(message[c], registry, api_versions)
           response == KafkaResponse_new(request.val.header, request.val.response)
           enc == KafkaMessageCodec_encode(response, wbuf[c])
       IN  /\ handled' = [handled EXCEPT ![c] = Append(@, request)]
           /\ IF request.st = "ok" /\ enc.st = "ok"
              THEN /\ wbuf' = [wbuf EXCEPT ![c] = enc.val]
                   /\ responses' = [responses EXCEPT ![c] = Append(@, response)]
                   /\ pc' = [pc EXCEPT ![c] = "flush"]
              ELSE /\ pc' = [pc EXCEPT ![c] = "read"]
                   /\ wbuf' = [wbuf EXCEPT ![c] =
                                  IF request.st = "ok" THEN enc.val ELSE @]
                   /\ UNCHANGED responses
    /\ message' = [message EXCEPT ![c] = <<>>]
    /\ UNCHANGED << server, calls, net, peer_fin, rbuf, is_readable, eof, out, sent,
                    frames >>

\* A loop body whose panic aborts the process: the tasks of all
\* connections end with it.
HandleRequest_Abort(c) ==
    /\ pc[c] = "handle"
    /\ LET request == decode_and_handle(message[c], registry, api_versions)
           response == KafkaResponse_new(request.val.header, request.val.response)
           enc == KafkaMessageCodec_encode(response, wbuf[c])
       IN  /\ handled' = [handled EXCEPT ![c] = Append(@, request)]
           /\ IF request.st = "ok" /\ enc.st = "ok"
              THEN /\ wbuf' = [wbuf EXCEPT ![c] = enc.val]
                   /\ responses' = [responses EXCEPT ![c] = Append(@, response)]
                   /\ pc' = [pc EXCEPT ![c] = "flush"]
              ELSE /\ pc' = [d \in DOMAIN pc |-> "panicked"]
                   /\ wbuf' = [wbuf EXCEPT ![c] =
                                  IF request.st = "ok" THEN enc.val ELSE @]
                   /\ UNCHANGED responses
    /\ message' = [message EXCEPT ![c] = <<>>]
    /\ UNCHANGED << server, calls, net, peer_fin, rbuf, is_readable, eof, out, sent,
                    frames >>

\* The loop body up to the await in stream.send: decode_and_handle(..)
\* .unwrap(), KafkaResponse::new, and the codec's encode into the write
\* buffer.  An Err unwrapped or a panic ends the task; the write buffer is
\* as the encoder left it.
HandleRequest(c) ==
    /\ pc[c] = "handle"
    /\ LET request == decode_and_handle(message[c], registry, api_versions)
           response == KafkaResponse_new(request.val.header, request.val.response)
           enc == KafkaMessageCodec_encode(response, wbuf[c])
       IN  /\ handled' = [handled EXCEPT ![c] = Append(@, request)]
           /\ IF request.st = "ok" /\ enc.st = "ok"
              THEN /\ wbuf' = [wbuf EXCEPT ![c] = enc.val]
                   /\ responses' = [responses EXCEPT ![c] = Append(@, response)]
                   /\ pc' = [pc EXCEPT ![c] = "flush"]
              ELSE /\ pc' = [pc EXCEPT ![c] = "panicked"]
                   /\ wbuf' = [wbuf EXCEPT ![c] =
                                  IF request.st = "ok" THEN enc.val ELSE @]
                   /\ UNCHANGED responses
    /\ message' = [message EXCEPT ![c] = <<>>]
    /\ UNCHANGED << server, calls, net, peer_fin, rbuf, is_readable, eof, out, sent,
                    frames >>

\* A flush that writes the buffer out, fails to clear it and writes it
\* again.
Flush_Twice(c) ==
    /\ pc[c] = "flush"
    /\ out' = [out EXCEPT ![c] = @ \o wbuf[c] \o wbuf[c]]
    /\ wbuf' = [wbuf EXCEPT ![c] = <<>>]
    /\ pc' = [pc EXCEPT ![c] = "read"]
    /\ UNCHANGED << server, calls, net, peer_fin, rbuf, is_readable, eof, message,
                    sent, frames, handled, responses >>

\* A flush that puts the write buffer in front of what was written before.
Flush_Prepend(c) ==
    /\ pc[c] = "flush"
    /\ out' = [out EXCEPT ![c] = wbuf[c] \o @]
    /\ wbuf' = [wbuf EXCEPT ![c] = <<>>]
    /\ pc' = [pc EXCEPT ![c] = "read"]
    /\ UNCHANGED << server, calls, net, peer_fin, rbuf, is_readable, eof, message,
                    sent, frames, handled, responses >>

\* stream.send, flushing: the write buffer goes out to the peer, and the
\* loop turns to the next frame.
Flush(c) ==
    /\ pc[c] = "flush"
    /\ out' = [out EXCEPT ![c] = @ \o wbuf[c]]
    /\ wbuf' = [wbuf EXCEPT ![c] = <<>>]
    /\ pc' = [pc EXCEPT ![c] = "read"]
    /\ UNCHANGED << server, calls, net, peer_fin, rbuf, is_readable, eof, message,
                    sent, frames, handled, responses >>

Next ==
    \E c \in DOMAIN pc :
        \/ Accept(c)
        \/ \E payload \in AllRequests : PeerSend(c, payload)
        \/ PeerClose(c)
        \/ SocketRead(c)
        \/ FrameDecode(c)
        \/ HandleRequest(c)
        \/ Flush(c)

Spec == Init /\ [][Next]_vars

\* ------------------------------------------------- the frame codec on its own

\* Bytes the payloads of SpecCodec are made of.
CodecBytes == {0, 255}

\* The byte strings over CodecBytes of length n.
RECURSIVE StringsOfLen(_)
StringsOfLen(n) ==
    IF n = 0 THEN { <<>> }
    ELSE {Append(s, b) : s \in StringsOfLen(n - 1), b \in CodecBytes}

CodecPayloads == UNION {StringsOfLen(n) : n \in 0..MaxPayloadLen}

\* The sequences of at most n payloads.
RECURSIVE PayloadSeqs(_)
PayloadSeqs(n) ==
    IF n = 0 THEN { <<>> }
    ELSE PayloadSeqs(n - 1)
         \cup {Append(ps, p) : ps \in {q \in PayloadSeqs(n - 1) : Len(q) = n - 1},
                               p \in CodecPayloads}

\* The payloads as the stream carries them: each behind its length.
WireOf(ps) == Flatten([i \in 1..Len(ps) |-> Wire(ps[i])])

\* A receive buffer that will be given the bytes of some well-formed frames.
InitCodec ==
    /\ registry = KafkaServer_build.registry
    /\ registrations = KafkaServer_build.registrations
    /\ calls = <<>>
    /\ api_versions = KafkaServer_build.api_versions
    /\ pc = [c \in Conns |-> "codec"]
    /\ \E ps \in PayloadSeqs(MaxCodecFrames) :
          /\ sent = [c \in Conns |-> ps]
          /\ net = [c \in Conns |-> WireOf(ps)]
    /\ peer_fin = [c \in Conns |-> FALSE]
    /\ rbuf = [c \in Conns |-> <<>>]
    /\ is_readable = [c \in Conns |-> FALSE]
    /\ eof = [c \in Conns |-> FALSE]
    /\ message = [c \in Conns |-> <<>>]
    /\ wbuf = [c \in Conns |-> <<>>]
    /\ out = [c \in Conns |-> <<>>]
    /\ frames = [c \in Conns |-> <<>>]
    /\ handled = [c \in Conns |-> <<>>]
    /\ responses = [c \in Conns |-> <<>>]

\* One more byte is appended to the receive buffer and
\* KafkaMessageCodec::decode is called on it.
CodecStep(c) ==
    /\ pc[c] = "codec" /\ net[c] # <<>>
    /\ LET r == KafkaMessageCodec_decode(Append(rbuf[c], Head(net[c])))
       IN  /\ rbuf' = [rbuf EXCEPT ![c] = r.rest]
           /\ frames' = [frames EXCEPT ![c] = IF r.some THEN Append(@, r.val) ELSE @]
    /\ net' = [net EXCEPT ![c] = Tail(@)]
    /\ UNCHANGED << server, calls, pc, peer_fin, is_readable, eof, message, wbuf, out,
                    sent, handled, responses >>

NextCodec == \E c \in DOMAIN pc : CodecStep(c)

SpecCodec == InitCodec /\ [][NextCodec]_vars

\* ------------------------------------------------------------------ observers

\* The complete length-prefixed frames at the front of a byte stream, as the
\* peer reading the stream sees them.
RECURSIVE SplitFrames(_)
SplitFrames(b) ==
    IF Len(b) < 4 THEN <<>>
    ELSE LET n == I32FromBytes(b[1], b[2], b[3], b[4])
         IN  IF n < 0 \/ Len(b) - 4 < n THEN <<>>
             ELSE << SubSeq(b, 5, 4 + n) >> \o SplitFrames(Drop(b, 4 + n))

\* The response frames the peer of connection c has been sent.
Written(c) == SplitFrames(out[c])

\* The response frames handed to the transport of connection c: sent, or
\* waiting in the write buffer.
HandedOff(c) == SplitFrames(out[c] \o wbuf[c])

\* The correlation id bytes of a request payload, and of a response payload.
RequestCorr(payload) == SubSeq(payload, 5, 8)

ResponseCorr(payload) == SubSeq(payload, 1, 4)

\* The api key and the version a request payload names.
RequestKey(payload) == I16FromBytes(payload[1], payload[2])

RequestVersion(payload) == I16FromBytes(payload[3], payload[4])

\* ---------------------------------------------------------------------- C1

\* C1: on a connection, the i-th response written carries the correlation
\* id of the i-th request the peer sent; what was written is whole response
\* frames only, never more of them than requests.
C1_ResponseOrder ==
    \A c \in DOMAIN pc :
        /\ Len(Written(c)) <= Len(sent[c])
        /\ WireOf(Written(c)) = out[c]
        /\ \A i \in 1..Len(Written(c)) :
              ResponseCorr(Written(c)[i]) = RequestCorr(sent[c][i])

\* Two responses were written whose requests had different correlation ids.
C1_Witness ==
    \E c \in DOMAIN pc :
        /\ Len(Written(c)) >= 2
        /\ ResponseCorr(Written(c)[1]) # ResponseCorr(Written(c)[2])

\* ---------------------------------------------------------------------- C2

\* The payloads among ps whose last byte is within the first n bytes of
\* the stream that carries ps.
RECURSIVE Completed(_, _)
Completed(ps, n) ==
    IF ps = <<>> \/ n < 4 + Len(Head(ps)) THEN <<>>
    ELSE << Head(ps) >> \o Completed(Tail(ps), n - (4 + Len(Head(ps))))

\* C2: with the bytes of well-formed frames appended one at a time and
\* decode called after each, the frames yielded so far are exactly the
\* payloads whose bytes have all been appended, in order; when every byte
\* has been appended they are the original sequence.
C2_FrameBoundaryInvariance ==
    \A c \in DOMAIN pc :
        /\ frames[c] = Completed(sent[c], Len(WireOf(sent[c])) - Len(net[c]))
        /\ net[c] = <<>> => frames[c] = sent[c]

\* Every byte of two different payloads was appended, and both were yielded.
C2_Witness ==
    \E c \in DOMAIN pc :
        /\ net[c] = <<>>
        /\ Len(frames[c]) >= 2
        /\ frames[c][1] # frames[c][2]

\* ---------------------------------------------------------------------- C3

\* The receive buffer of c holds fewer than 4 bytes, or fewer bytes after
\* the first 4 than the frame now arriving is long.
Incomplete(c) ==
    \/ Len(rbuf[c]) < 4
    \/ Len(rbuf[c]) - 4 < Len(sent[c][Len(frames[c]) + 1])

\* C3: a call of decode on an incomplete frame yields nothing and leaves
\* the buffer as it is; any other call yields the frame and takes exactly
\* its 4 + length bytes off the front of the buffer, leaving the rest.
C3_DecodeFrameEffect ==
    [][\A c \in DOMAIN pc :
          FrameDecode(c) =>
              IF Incomplete(c)
              THEN frames'[c] = frames[c] /\ rbuf'[c] = rbuf[c]
              ELSE /\ frames'[c] = Append(frames[c], sent[c][Len(frames[c]) + 1])
                   /\ rbuf'[c] = Drop(rbuf[c], 4 + Len(sent[c][Len(frames[c]) + 1]))
      ]_vars

\* A frame was yielded and bytes that follow it are still buffered.
C3_Witness ==
    \E c \in DOMAIN pc :
        /\ pc[c] = "handle"
        /\ Len(frames[c]) >= 1
        /\ rbuf[c] # <<>>

\* ---------------------------------------------------------------------- C4

\* Requests of connection c decoded and not yet answered on the wire.
InFlight(c) == Len(frames[c]) - Len(Written(c))

\* C4: at most one request of a connection is in flight, and the stream is
\* neither read nor asked for a frame while one is.
C4_OneInFlight ==
    /\ [](\A c \in DOMAIN pc : InFlight(c) \in {0, 1})
    /\ [][\A c \in DOMAIN pc :
             (SocketRead(c) \/ FrameDecode(c)) => InFlight(c) = 0]_vars

\* A response waits to be flushed while the next request is already buffered.
C4_Witness ==
    \E c \in DOMAIN pc :
        /\ pc[c] = "flush"
        /\ InFlight(c) = 1
        /\ SplitFrames(rbuf[c]) # <<>>

\* ---------------------------------------------------------------------- C5

\* C5: every response frame handed to the transport begins with the
\* correlation id of the request header of the request it answers.
C5_CorrelationEcho ==
    \A c \in DOMAIN pc :
        /\ Len(HandedOff(c)) = Len(responses[c])
        /\ \A i \in 1..Len(HandedOff(c)) :
              /\ handled[c][i].st = "ok"
              /\ ResponseCorr(HandedOff(c)[i])
                     = put_i32(handled[c][i].val.header.correlation_id)
              /\ ResponseCorr(HandedOff(c)[i]) = RequestCorr(frames[c][i])

\* A response to the request with correlation id -2 was written.
C5_Witness ==
    \E c \in DOMAIN pc :
        \E i \in 1..Len(Written(c)) :
            /\ handled[c][i].val.header.correlation_id = -2
            /\ ResponseCorr(Written(c)[i]) = << 255, 255, 255, 254 >>

\* ---------------------------------------------------------------------- C6

\* The request payload names an api key the registry has no handler for.
Unregistered(payload) == RequestKey(payload) \notin DOMAIN registry

\* The client_id of the request payload is present, whole, and not UTF-8.
MalformedClientId(payload) ==
    /\ Len(payload) >= 10
    /\ LET n == I16FromBytes(payload[9], payload[10])
       IN  /\ n >= 0
           /\ Len(payload) >= 10 + n
           /\ ~ValidUtf8(SubSeq(payload, 11, 10 + n))

\* C6: a frame that names an unregistered api key, or whose client_id is
\* not valid UTF-8, ends the connection; it is the last frame handled, and
\* the bytes handed to the transport are the whole responses to the frames
\* before it and nothing else.
C6_NoResponseOnBadFrame ==
    \A c \in DOMAIN pc :
        \A i \in 1..Len(handled[c]) :
            (Unregistered(frames[c][i]) \/ MalformedClientId(frames[c][i])) =>
                /\ handled[c][i].st # "ok"
                /\ Ended(c)
                /\ i = Len(handled[c])
                /\ Len(HandedOff(c)) = i - 1
                /\ WireOf(HandedOff(c)) = out[c] \o wbuf[c]

\* After one answered request, a frame with an unregistered api key ended
\* the connection.
C6_Witness ==
    \E c \in DOMAIN pc :
        /\ Len(handled[c]) = 2
        /\ Unregistered(frames[c][2])
        /\ Ended(c)
        /\ Len(Written(c)) = 1

\* ---------------------------------------------------------------------- C7

\* The request payload names a registered api key and a version outside
\* the VERSIONS of its request type.
OutOfRange(payload) ==
    /\ ~Unregistered(payload)
    /\ ~contains(VERSIONS(registry[RequestKey(payload)]), RequestVersion(payload))

\* C7: a request with a registered api key and a version outside the
\* schema's range is rejected with an error, and no byte after the 8-byte
\* prefix has been consumed from its frame when it is.
C7_VersionCheckedFirst ==
    \A c \in DOMAIN pc :
        \A i \in 1..Len(handled[c]) :
            OutOfRange(frames[c][i]) =>
                /\ handled[c][i].st = "err"
                /\ Len(frames[c][i]) - Len(handled[c][i].rest) <= 8

\* ---------------------------------------------------------------------- C8

\* The error_code on the wire of an ApiVersions response payload, and the
\* number of api_keys entries it announces.
WireErrorCode(resp) == I16FromBytes(resp[5], resp[6])

WireApiKeysLen(resp) == I32FromBytes(resp[7], resp[8], resp[9], resp[10])

\* C8: an ApiVersions request with a version outside the supported range is
\* answered, with error_code 35, a populated api_keys list and the
\* request's correlation id.
C8_ApiVersionsFallback ==
    \A c \in DOMAIN pc :
        \A i \in 1..Len(handled[c]) :
            (RequestKey(frames[c][i]) = 18 /\ OutOfRange(frames[c][i])) =>
                /\ handled[c][i].st = "ok"
                /\ Len(HandedOff(c)) >= i
                /\ ResponseCorr(HandedOff(c)[i]) = RequestCorr(frames[c][i])
                /\ WireErrorCode(HandedOff(c)[i]) = 35
                /\ WireApiKeysLen(HandedOff(c)[i]) > 0

\* ---------------------------------------------------------------------- C9

\* The api_keys entries on the wire of an ApiVersions response payload:
\* api_key, min_version, max_version and an empty tagged-fields block each.
WireApiKeys(resp) ==
    [j \in 1..WireApiKeysLen(resp) |->
        LET at == 10 + 7 * (j - 1)
        IN  [api_key |-> I16FromBytes(resp[at + 1], resp[at + 2]),
             min_version |-> I16FromBytes(resp[at + 3], resp[at + 4]),
             max_version |-> I16FromBytes(resp[at + 5], resp[at + 6])]]

\* The responses handed to the transport of c that answer ApiVersions
\* requests.
ApiVersionsReplies(c) ==
    { i \in 1..Len(HandedOff(c)) : RequestKey(frames[c][i]) = 18 }

\* C9: every api_keys entry of every ApiVersions response names a
\* registered api key and carries the VERSIONS range of the request type
\* registered under it.
C9_AdvertisedRanges ==
    \A c \in DOMAIN pc :
        \A i \in ApiVersionsReplies(c) :
            LET keys == WireApiKeys(HandedOff(c)[i])
            IN  \A j \in 1..Len(keys) :
                    /\ keys[j].api_key \in DOMAIN registry
                    /\ keys[j].min_version = VERSIONS(registry[keys[j].api_key]).min
                    /\ keys[j].max_version = VERSIONS(registry[keys[j].api_key]).max

\* An ApiVersions response with an entry for Metadata (3), whose range is
\* 0..13, was written.
C9_Witness ==
    \E c \in DOMAIN pc :
        \E i \in ApiVersionsReplies(c) :
            /\ i <= Len(Written(c))
            /\ \E j \in 1..WireApiKeysLen(Written(c)[i]) :
                   WireApiKeys(Written(c)[i])[j] =
                       [api_key |-> 3, min_version |-> 0, max_version |-> 13]

\* --------------------------------------------------------------------- C10

\* C10: the api_keys list of every ApiVersions response has exactly one
\* entry for each api key of the registry, 18 among them, and no other.
C10_AllRegisteredKeys ==
    \A c \in DOMAIN pc :
        \A i \in ApiVersionsReplies(c) :
            LET keys == WireApiKeys(HandedOff(c)[i])
            IN  /\ { keys[j].api_key : j \in 1..Len(keys) } = DOMAIN registry
                /\ Len(keys) = Cardinality(DOMAIN registry)
                /\ 18 \in { keys[j].api_key : j \in 1..Len(keys) }

\* ------------------------------------------- one stream through the loop

\* Requests with every field of their version present: ApiVersions v0 and
\* v3; Metadata v0 with the topic "ab" and v4 with no topic; Metadata v12,
\* without and with a tagged field (tag 5, two bytes) in the body;
\* FindCoordinator v0 for the key "g", and v4 with no key.
WholeRequests ==
    { Prefix(18, 0, 1) \o ClientNull,
      Prefix(18, 3, 3) \o ClientC \o << 0 >> \o << 2, 114, 2, 50, 0 >>,
      Prefix(3, 0, 300) \o ClientNull \o << 0, 0, 0, 1 >> \o << 0, 2, 97, 98 >>,
      Prefix(3, 4, 5) \o ClientNull \o << 0, 0, 0, 0 >> \o << 1 >>,
      Prefix(3, 12, -2) \o ClientNull \o << 0 >> \o << 1, 1, 0, 0 >>,
      Prefix(3, 12, 9) \o ClientNull \o << 0 >> \o << 1, 1, 0 >>
          \o << 1, 5, 2, 7, 7 >>,
      Prefix(10, 0, 7) \o ClientNull \o << 0, 1, 103 >>,
      Prefix(10, 4, 8) \o ClientC \o << 0 >> \o << 0, 1, 0 >>
    }

\* The frames that end before the request p does.
Truncations(p) == {Take(p, k) : k \in 0..(Len(p) - 1)}

\* The frames that carry up to MaxTrailing zero bytes after the request p.
Trailing(p) == {p \o [i \in 1..n |-> 0] : n \in 1..MaxTrailing}

TruncatedRequests == UNION {Truncations(p) : p \in WholeRequests}

TrailedRequests == UNION {Trailing(p) : p \in WholeRequests}

\* The frame payloads of SpecRequest.
RequestFrames ==
    AllRequests \cup WholeRequests \cup TruncatedRequests \cup TrailedRequests

\* Length prefixes no frame of the peer lives up to: -1, the least i32,
\* the greatest i32, and one more than 100 MiB.
BadLengths ==
    { << 255, 255, 255, 255 >>, << 128, 0, 0, 0 >>,
      << 127, 255, 255, 255 >>, << 6, 64, 0, 1 >> }

\* What a peer writes in SpecRequest: one frame, or a bad length prefix
\* with bytes after it.
Streams ==
    {[payloads |-> << p >>, bytes |-> Wire(p)] : p \in RequestFrames}
    \cup {[payloads |-> <<>>, bytes |-> h \o b] :
             h \in BadLengths, b \in {<<>>, Prefix(18, 0, 1) \o ClientNull}}

\* An accepted connection whose peer has written one stream.
InitRequest ==
    /\ registry = KafkaServer_build.registry
    /\ registrations = KafkaServer_build.registrations
    /\ calls = <<>>
    /\ api_versions = KafkaServer_build.api_versions
    /\ pc = [c \in Conns |-> "read"]
    /\ \E s \in Streams :
          /\ sent = [c \in Conns |-> s.payloads]
          /\ net = [c \in Conns |-> s.bytes]
    /\ peer_fin = [c \in Conns |-> FALSE]
    /\ rbuf = [c \in Conns |-> <<>>]
    /\ is_readable = [c \in Conns |-> FALSE]
    /\ eof = [c \in Conns |-> FALSE]
    /\ message = [c \in Conns |-> <<>>]
    /\ wbuf = [c \in Conns |-> <<>>]
    /\ out = [c \in Conns |-> <<>>]
    /\ frames = [c \in Conns |-> <<>>]
    /\ handled = [c \in Conns |-> <<>>]
    /\ responses = [c \in Conns |-> <<>>]

NextRequest ==
    \E c \in DOMAIN pc :
        \/ PeerClose(c)
        \/ SocketRead(c)
        \/ FrameDecode(c)
        \/ HandleRequest(c)
        \/ Flush(c)

SpecRequest == InitRequest /\ [][NextRequest]_vars

\* --------------------------------------------------------------------- C11

\* C11: a frame whose header and body were decoded and whose request was
\* handled had no byte left in it after the decode.
C11_WholeFrameConsumed ==
    \A c \in DOMAIN pc :
        \A i \in 1..Len(handled[c]) :
            handled[c][i].st = "ok" => handled[c][i].rest = <<>>

\* --------------------------------------------------------------------- C12

\* The frames that end before a request does whose body the server has a
\* decoder for (the decoder of FindCoordinator requests is a todo!()).
CutShort ==
    UNION {Truncations(p) : p \in {q \in WholeRequests : RequestKey(q) # 10}}

\* C12: a frame that ends before its request does is answered by no panic:
\* the decoders return an error value.
C12_TruncationIsAnError ==
    \A c \in DOMAIN pc :
        \A i \in 1..Len(handled[c]) :
            frames[c][i] \in CutShort => handled[c][i].st = "err"

\* --------------------------------------------------------------------- C13

\* The buffer begins with a length prefix that is a negative i32.
NegativeLength(b) ==
    Len(b) >= 4 /\ I32FromBytes(b[1], b[2], b[3], b[4]) < 0

\* C13: a call of the frame decoder on a buffer that begins with a negative
\* length ends in a protocol error, which ends the connection loop.
C13_NegativeLengthRejected ==
    [][\A c \in DOMAIN pc :
          (FrameDecode(c) /\ NegativeLength(rbuf[c])) => pc'[c] = "closed"]_vars

\* --------------------------------------------------------------------- C14

\* The cap on the declared length of a frame: 100 MiB.
FrameCap == 104857600

\* The buffer begins with a length prefix greater than the cap.
TooLarge(b) ==
    Len(b) >= 4 /\ I32FromBytes(b[1], b[2], b[3], b[4]) > FrameCap

\* C14: a call of the frame decoder on a buffer that begins with a length
\* above the cap ends in an error and the connection is closed; the decoder
\* does not go on waiting for the bytes.
C14_FrameTooLargeRejected ==
    [][\A c \in DOMAIN pc :
          (FrameDecode(c) /\ TooLarge(rbuf[c])) => pc'[c] = "closed"]_vars

\* --------------------------------------------------------------------- C15

\* Message::header_version of ApiVersionsResponse.
ApiVersionsResponse_header_version(version) == 0

\* The body bytes of a response, as KafkaResponse::encode has them written.
BodyBytes(item) == encode_any(item.response, EncodeVersionUsed(item)).val

\* C15: the header version used for a response is the one its schema
\* declares, and the bytes before the body of every response frame are the
\* correlation id, followed by the byte 0 when that version is 1 or more.
C15_ResponseHeaderLayout ==
    \A c \in DOMAIN pc :
        \A i \in 1..Len(HandedOff(c)) :
            LET item == responses[c][i]
                frame == HandedOff(c)[i]
            IN  /\ item.response.kind = "ApiVersions" =>
                       HeaderVersionUsed(item) =
                           ApiVersionsResponse_header_version(RequestVersion(frames[c][i]))
                /\ Take(frame, Len(frame) - Len(BodyBytes(item))) =
                       put_i32(item.header.correlation_id)
                       \o (IF HeaderVersionUsed(item) >= 1 THEN << 0 >> ELSE <<>>)

\* --------------------------------------------------------------------- C16

\* C16: the response to a request with a version in range is encoded at
\* the version of the request header.
C16_VersionThreaded ==
    \A c \in DOMAIN pc :
        \A i \in 1..Len(responses[c]) :
            ~OutOfRange(frames[c][i]) =>
                EncodeVersionUsed(responses[c][i]) = RequestVersion(frames[c][i])

\* --------------------------------------------------------------------- C17

\* Responses whose encoding fails: a tagged field is set, in the response
\* or in one of its entries.
Unencodable ==
    { [header |-> [correlation_id |-> 7],
       response |-> [kind |-> "ApiVersions", error_code |-> 0, api_keys |-> <<>>,
                     throttle_time_ms |-> 0, tagged_fields |-> (5 :> << 1 >>)]],
      [header |-> [correlation_id |-> 7],
       response |-> [kind |-> "ApiVersions", error_code |-> 0,
                     api_keys |-> << [api_key |-> 3, min_version |-> 0,
                                      max_version |-> 13,
                                      tagged_fields |-> (5 :> << 1 >>)] >>,
                     throttle_time_ms |-> 0, tagged_fields |-> << >>]] }

\* The requests of connection c that were handled and answered.
Served(c) == {i \in 1..Len(handled[c]) : handled[c][i].st = "ok"}

InitRegistry ==
    /\ registry = MessageRegistry_new
    /\ registrations = <<>>
    /\ calls = <<>>
    /\ api_versions = <<>>
    /\ pc = << >>
    /\ net = << >>
    /\ peer_fin = << >>
    /\ rbuf = << >>
    /\ is_readable = << >>
    /\ eof = << >>
    /\ message = << >>
    /\ wbuf = << >>
    /\ out = << >>
    /\ sent = << >>
    /\ frames = << >>
    /\ handled = << >>
    /\ responses = << >>

\* registry.register(key, handler): the call returns for every key.  An
\* ApiVersionsHandler is constructed from the registry before the call.
Register(key, req) ==
    /\ Len(registrations) < MaxRegistrations
    /\ registry' = register(registry, key, req)
    /\ registrations' = Append(registrations, key)
    /\ api_versions' = IF req = "ApiVersions" THEN ApiVersionsHandler_new(registry)
                       ELSE api_versions
    /\ UNCHANGED << calls, pc, net, peer_fin, rbuf, is_readable, eof, message, wbuf,
                    out, sent, frames, handled, responses >>

NextRegistry == \E key \in {3, 10, 18}, req \in RequestTypes : Register(key, req)

SpecRegistry == InitRegistry /\ [][NextRegistry]_vars

\* C18: the register calls that returned were each for a key of its own: no
\* api key was registered twice.
C18_RegisteredOnce ==
    \A i, j \in 1..Len(registrations) :
        registrations[i] = registrations[j] => i = j

\* --------------------------------------------------------------------- C19

\* The api_key entries, the brokers and the topics a Metadata response
\* payload announces: the compact-array length after throttle_time_ms, and
\* the one after cluster_id and controller_id when there is no broker and
\* no cluster id.
WireThrottle(resp) == I32FromBytes(resp[5], resp[6], resp[7], resp[8])

WireBrokers(resp) == resp[9] - 1

WireTopics(resp) == resp[15] - 1

\* C19: a Metadata or FindCoordinator request with every field of its
\* version present and a version in range is answered: a response frame is
\* handed to the transport, and for Metadata it has throttle_time_ms 0, no
\* broker and no topic.
C19_StubsAnswer ==
    \A c \in DOMAIN pc :
        \A i \in 1..Len(handled[c]) :
            (frames[c][i] \in WholeRequests /\ RequestKey(frames[c][i]) \in {3, 10}) =>
                /\ handled[c][i].st = "ok"
                /\ Len(HandedOff(c)) >= i
                /\ RequestKey(frames[c][i]) = 3 =>
                      /\ WireThrottle(HandedOff(c)[i]) = 0
                      /\ WireBrokers(HandedOff(c)[i]) = 0
                      /\ WireTopics(HandedOff(c)[i]) = 0


\* --------------------------------------------------------------------- C20

\* C20: in every reachable state the registry is the one KafkaServer::build
\* made, by the register calls build made and no other, and api key 18 is
\* registered in it with the ApiVersions handler.
C20_RegistryFixed ==
    /\ registry = KafkaServer_build.registry
    /\ registrations = KafkaServer_build.registrations
    /\ 18 \in DOMAIN registry
    /\ registry[18] = "ApiVersions"

\* A connection that was served two responses and then closed, the registry
\* still holding key 18.
C20_Witness ==
    \E c \in DOMAIN pc :
        /\ pc[c] = "closed"
        /\ Len(Written(c)) = 2
        /\ 18 \in DOMAIN registry


\* --------------------------------------------------------------------- C21

\* A step of the read half of connection c, inside stream.next().
ReadStep(c) == SocketRead(c) \/ FrameDecode(c)

\* SpecRequest with the runtime's scheduling: a connection task that is
\* ready to read, to decode or to flush is polled and does so.  (Nothing is
\* assumed about the handler step.)
SpecRequestFair ==
    SpecRequest /\ \A c \in Conns : WF_vars(ReadStep(c)) /\ WF_vars(Flush(c))

\* C21: once the read side of a connection has seen the end of the stream,
\* every frame it yielded before has its response written out, nothing is
\* read, handled or written any more, the task does not panic, and the
\* connection ends with the loop left.
C21_EofEndsCleanly ==
    /\ \A c \in Conns : eof[c] ~> (pc[c] = "closed")
    /\ [](\A c \in DOMAIN pc :
            eof[c] => /\ pc[c] \in {"read", "closed"}
                      /\ wbuf[c] = <<>>
                      /\ Len(Written(c)) = Len(frames[c]))
    /\ [][\A c \in DOMAIN pc :
            eof[c] => /\ net'[c] = net[c]
                      /\ out'[c] = out[c]
                      /\ frames'[c] = frames[c]
                      /\ handled'[c] = handled[c]]_vars

\* The request the peer sent was answered, then the end of the stream was
\* seen and the loop left.
C21_Witness ==
    \E c \in DOMAIN pc :
        /\ pc[c] = "closed" /\ eof[c]
        /\ Len(frames[c]) = 1
        /\ Len(Written(c)) = 1


\* --------------------------------------------------------------------- C22

\* C22: when the header of a frame was decoded and the decode of its body
\* returned an error, the connection has, by the time its task ends, sent a
\* response that carries the correlation id of that header.
C22_HeaderSurvivesBodyError ==
    \A c \in DOMAIN pc :
        \A i \in 1..Len(handled[c]) :
            (handled[c][i].hdr.st = "ok" /\ handled[c][i].st = "err" /\ Ended(c))
                => \E j \in 1..Len(Written(c)) :
                       ResponseCorr(Written(c)[j]) = RequestCorr(frames[c][i])


\* --------------------------------------------------------------------- C23

\* The client id of a request payload as its bytes give it: the i16 length
\* at bytes 9 and 10 (-1 for null), then that many bytes.
ClientIdLen(payload) ==
    LET l == I16FromBytes(payload[9], payload[10]) IN IF l < 0 THEN 0 ELSE l

ClientIdBytes(payload) == SubSeq(payload, 11, 10 + ClientIdLen(payload))

\* What follows the client id in a request payload.
AfterClientId(payload) == Drop(payload, 10 + ClientIdLen(payload))

\* C23: a header that was decoded holds the api key, the version, the
\* correlation id and the client id the frame starts with, in that order;
\* when the registry's header version for that key and version is 2 or
\* more, a tagged-fields block was read next, otherwise the header's tagged
\* fields are empty and the header ends with the client id.
C23_HeaderLayout ==
    \A c \in DOMAIN pc :
        \A i \in 1..Len(handled[c]) :
            LET h == handled[c][i].hdr
                f == frames[c][i]
                after == AfterClientId(f)
            IN  h.st = "ok" =>
                /\ h.val.api_key = RequestKey(f)
                /\ h.val.version = RequestVersion(f)
                /\ put_i32(h.val.correlation_id) = RequestCorr(f)
                /\ h.val.client_id = ClientIdBytes(f)
                /\ IF registry_header_version(registry, RequestKey(f),
                                              RequestVersion(f)).val >= 2
                   THEN /\ TaggedFields_decode(after).st = "ok"
                        /\ h.val.tagged_fields = TaggedFields_decode(after).val
                        /\ h.rest = TaggedFields_decode(after).rest
                        /\ Len(h.rest) < Len(after)
                   ELSE /\ h.val.tagged_fields = << >>
                        /\ h.rest = after

\* A header with a client id was decoded at header version 2, its
\* tagged-fields block read.
C23_Witness ==
    \E c \in DOMAIN pc :
        \E i \in 1..Len(handled[c]) :
            /\ handled[c][i].hdr.st = "ok"
            /\ handled[c][i].hdr.val.client_id # <<>>
            /\ header_version("ApiVersions", handled[c][i].hdr.val.version) = 2
            /\ handled[c][i].hdr.val.api_key = 18
            /\ Len(handled[c][i].hdr.rest) < Len(AfterClientId(frames[c][i]))


\* --------------------------------------- the codec functions on their own

\* The server is built and no connection exists; functions of the codec
\* are called with arguments of the caller's choice, and each call is
\* recorded with its result.
InitCalls ==
    /\ registry = KafkaServer_build.registry
    /\ registrations = KafkaServer_build.registrations
    /\ api_versions = KafkaServer_build.api_versions
    /\ calls = <<>>
    /\ pc = << >>
    /\ net = << >>
    /\ peer_fin = << >>
    /\ rbuf = << >>
    /\ is_readable = << >>
    /\ eof = << >>
    /\ message = << >>
    /\ wbuf = << >>
    /\ out = << >>
    /\ sent = << >>
    /\ frames = << >>
    /\ handled = << >>
    /\ responses = << >>

\* One call of function fn with argument arg, which gave res.
Call(fn, arg, res) ==
    /\ Len(calls) < MaxCalls
    /\ calls' = Append(calls, [fn |-> fn, arg |-> arg, res |-> res])
    /\ UNCHANGED << server, pc, net, peer_fin, rbuf, is_readable, eof, message,
                    wbuf, out, sent, frames, handled, responses >>

\* The calls of fn made so far.
CallsOf(fn) == {calls[i] : i \in {j \in 1..Len(calls) : calls[j].fn = fn}}

\* The api versions header_version is asked about: the ranges of all three
\* request types and one version either side.
VersionsTried == (-1)..14

\* registry.header_version(api_key, version) for a version and the next.
HeaderVersionCall(api_key, version) ==
    Call("header_version", << api_key, version >>,
         << registry_header_version(registry, api_key, version).val,
            registry_header_version(registry, api_key, version + 1).val >>)


\* Tagged fields as a peer lists them: up to two (tag, data) entries, in
\* any order, a tag possibly twice.
TaggedEntries ==
    LET E == [tag : 0..2, data : {<<>>, << 7 >>}]
    IN  {<<>>} \cup {<< e >> : e \in E} \cup {<< e, f >> : e \in E, f \in E}

\* The tagged-fields block of the entries: their count, then for each its
\* tag, the size of its data and the data.
TaggedBlock(entries) ==
    write_varint(Len(entries))
    \o Flatten([i \in 1..Len(entries) |->
                   write_varint(entries[i].tag)
                   \o write_varint(Len(entries[i].data)) \o entries[i].data])

\* <BTreeMap<i32, Bytes> as Decoder>::decode on the block of the entries.
TaggedFieldsDecodeCall(entries) ==
    Call("tagged_fields_decode", entries, TaggedFields_decode(TaggedBlock(entries)))

\* Metadata requests as a client makes them: no topic or one, with an id
\* and a two-byte name, and the three flags.
MetadataRequests ==
    [topics : {<<>>, << [topic_id |-> [i \in 1..16 |-> i], name |-> << 97, 98 >>] >>},
     allow_auto_topic_creation : BOOLEAN,
     include_cluster_authorized_operations : BOOLEAN,
     include_topic_authorized_operations : BOOLEAN]

\* The body of a Metadata request at a version, as a client lays it out: of
\* each topic the id from version 10 on, the name (a string up to version
\* 8, compact from 9 on) and from version 9 on an empty tagged-fields
\* block; then the flags that exist at the version and from version 9 on
\* an empty tagged-fields block.
MetadataBody(req, version) ==
    LET flex == IF version >= 9 THEN << 0 >> ELSE <<>>
        topic(t) ==
            (IF version >= 10 THEN t.topic_id ELSE <<>>)
            \o (IF version >= 9 THEN write_varint(Len(t.name) + 1)
                ELSE put_i16(Len(t.name)))
            \o t.name \o flex
    IN  (IF version >= 9 THEN write_varint(Len(req.topics) + 1)
         ELSE put_i32(Len(req.topics)))
        \o Flatten([i \in 1..Len(req.topics) |-> topic(req.topics[i])])
        \o (IF version >= 4 THEN bool_encode(req.allow_auto_topic_creation) ELSE <<>>)
        \o (IF version >= 8 /\ version < 11
            THEN bool_encode(req.include_cluster_authorized_operations) ELSE <<>>)
        \o (IF version >= 8
            THEN bool_encode(req.include_topic_authorized_operations) ELSE <<>>)
        \o flex

\* MetadataRequest::decode at a version, on the body of a request with one
\* more byte behind it.
MetadataDecodeCall(req, version) ==
    Call("MetadataRequest_decode", << req, version >>,
         MetadataRequest_decode(MetadataBody(req, version) \o << 1 >>, version))

\* Compact nullable strings on the wire: null, the empty string, "a", "ab".
CompactNullableStrings == { << 0 >>, << 1 >>, << 2, 97 >>, << 3, 97, 98 >> }

\* CompactNullableString::decode on the bytes, then
\* CompactNullableString::encode of the value it returned.
CompactNullableStringCall(bytes) ==
    Call("CompactNullableString", bytes,
         CompactNullableString_encode(CompactNullableString_decode(bytes).val))

\* ApiVersions responses: the first n entries of the server's api_versions
\* list, with error code 0 or 35 (UNSUPPORTED_VERSION).
ApiVersionsResponses ==
    {[kind |-> "ApiVersions", error_code |-> e,
      api_keys |-> Take(api_versions, n),
      throttle_time_ms |-> 0, tagged_fields |-> << >>] :
        e \in {0, 35}, n \in 0..Len(api_versions)}

\* ApiVersionsResponse::encode
ApiVersionsResponseEncodeCall(response) ==
    Call("ApiVersionsResponse_encode", response, ApiVersionsResponse_encode(response))

\* Tagged-fields maps a message can hold: any of the tags 0..2, each with
\* no data or one byte.
TaggedMaps == UNION {[T -> {<<>>, << 7 >>}] : T \in SUBSET (0..2)}

\* The entries of a tagged-fields map in ascending tag order.
EntriesOf(map) ==
    [i \in 1..Cardinality(DOMAIN map) |->
        [tag |-> Ascending(DOMAIN map)[i], data |-> map[Ascending(DOMAIN map)[i]]]]

\* <BTreeMap<i32, Bytes> as Encoder>::encode
TaggedFieldsEncodeCall(map) ==
    Call("tagged_fields_encode", map, TaggedFields_encode(map))

\* Strings of up to three bytes ("", "a", "ab", "abc"), and what may follow
\* a string in its buffer: nothing, one byte or two.
ShortStrings == { <<>>, << 97 >>, << 97, 98 >>, << 97, 98, 99 >> }

Followers == { <<>>, << 1 >>, << 1, 1 >> }

\* <String as Decoder>::decode on the i16 length of a string, the string
\* and what follows it.
StringDecodeCall(str, follow) ==
    Call("String_decode", << str, follow >>,
         String_decode(put_i16(Len(str)) \o str \o follow))

NextCalls ==
    \/ \E api_key \in {3, 10, 18}, version \in VersionsTried :
           HeaderVersionCall(api_key, version)
    \/ \E entries \in TaggedEntries : TaggedFieldsDecodeCall(entries)
    \/ \E req \in MetadataRequests, version \in 0..13 : MetadataDecodeCall(req, version)
    \/ \E bytes \in CompactNullableStrings : CompactNullableStringCall(bytes)
    \/ \E response \in ApiVersionsResponses : ApiVersionsResponseEncodeCall(response)
    \/ \E map \in TaggedMaps : TaggedFieldsEncodeCall(map)
    \/ \E str \in ShortStrings, follow \in Followers : StringDecodeCall(str, follow)

SpecCalls == InitCalls /\ [][NextCalls]_vars

\* --------------------------------------------------------------------- C24

\* C24: for each registered request type the header version of a version
\* is 1 or 2 and not above that of the next version; for ApiVersions (18)
\* it is 2 exactly from version 3 on, for Metadata (3) exactly from
\* version 9 on.
C24_HeaderVersionSteps ==
    \A call \in CallsOf("header_version") :
        LET api_key == call.arg[1]
            version == call.arg[2]
        IN  /\ call.res[1] \in {1, 2} /\ call.res[2] \in {1, 2}
            /\ call.res[1] <= call.res[2]
            /\ api_key = 18 => (call.res[1] = 2 <=> version >= 3)
            /\ api_key = 3 => (call.res[1] = 2 <=> version >= 9)

\* The step of Metadata: header version 1 at version 8, 2 at version 9.
C24_Witness ==
    \E call \in CallsOf("header_version") :
        call.arg = << 3, 8 >> /\ call.res = << 1, 2 >>


\* --------------------------------------------------------------------- C25

\* The tags of the entries rise strictly: none is repeated, none is out of
\* order.
StrictlyIncreasing(entries) ==
    \A i \in 1..(Len(entries) - 1) : entries[i].tag < entries[i + 1].tag

\* C25: the decode of a tagged-fields block returns an error when its tags
\* do not rise strictly; when they do, it returns the map that holds
\* exactly those tags, each with the data of its entry.
C25_TagsStrictlyIncreasing ==
    \A call \in CallsOf("tagged_fields_decode") :
        IF StrictlyIncreasing(call.arg)
        THEN /\ call.res.st = "ok"
             /\ DOMAIN call.res.val = {call.arg[i].tag : i \in 1..Len(call.arg)}
             /\ \A i \in 1..Len(call.arg) :
                    call.res.val[call.arg[i].tag] = call.arg[i].data
        ELSE call.res.st = "err"


\* --------------------------------------------------------------------- C26

\* C26: the decode of a Metadata request body at version v returns the
\* fields that exist at v as the client wrote them and every other field at
\* its default, and leaves in the buffer what follows the body: the topic
\* id is read from version 10 on, allow_auto_topic_creation from 4 on,
\* include_cluster_authorized_operations from 8 to 10,
\* include_topic_authorized_operations from 8 on, tagged fields from 9 on.
C26_FieldsByVersion ==
    \A call \in CallsOf("MetadataRequest_decode") :
        LET req == call.arg[1]
            v == call.arg[2]
        IN  /\ call.res.st = "ok"
            /\ call.res.rest = << 1 >>
            /\ Len(call.res.val.topics) = Len(req.topics)
            /\ \A i \in 1..Len(req.topics) :
                   /\ call.res.val.topics[i].name = req.topics[i].name
                   /\ call.res.val.topics[i].topic_id =
                          IF v >= 10 THEN req.topics[i].topic_id ELSE Uuid_nil
                   /\ call.res.val.topics[i].tagged_fields = << >>
            /\ call.res.val.allow_auto_topic_creation =
                   (v >= 4 /\ req.allow_auto_topic_creation)
            /\ call.res.val.include_cluster_authorized_operations =
                   (v >= 8 /\ v < 11 /\ req.include_cluster_authorized_operations)
            /\ call.res.val.include_topic_authorized_operations =
                   (v >= 8 /\ req.include_topic_authorized_operations)
            /\ call.res.val.tagged_fields = << >>

\* A version 11 request with a topic and all flags set was decoded: the
\* cluster flag, which the client does not send at 11, came out false.
C26_Witness ==
    \E call \in CallsOf("MetadataRequest_decode") :
        /\ call.arg[2] = 11
        /\ Len(call.arg[1].topics) = 1
        /\ call.arg[1].include_cluster_authorized_operations
        /\ call.arg[1].include_topic_authorized_operations
        /\ call.res.st = "ok"
        /\ ~call.res.val.include_cluster_authorized_operations
        /\ call.res.val.include_topic_authorized_operations


\* --------------------------------------------------------------------- C27

\* C27: a compact nullable string that is decoded and encoded again comes
\* out as the bytes it was: null as the one byte 0, the empty string as the
\* one byte 1.
C27_NullAndEmptyRoundTrip ==
    \A call \in CallsOf("CompactNullableString") : call.res = call.arg


\* --------------------------------------------------------------------- C28

\* C28: an ApiVersions response is encoded as its error code (i16), its
\* api keys as a compact array (the varint of their count plus one, then of
\* each entry the api key, the minimum and the maximum version (i16 each)
\* and an empty tagged-fields block), its throttle time (i32) and an empty
\* tagged-fields block.
C28_ApiVersionsResponseLayout ==
    \A call \in CallsOf("ApiVersionsResponse_encode") :
        LET r == call.arg
        IN  /\ call.res.st = "ok"
            /\ call.res.val =
                   put_i16(r.error_code)
                   \o write_varint(Len(r.api_keys) + 1)
                   \o Flatten([i \in 1..Len(r.api_keys) |->
                                  put_i16(r.api_keys[i].api_key)
                                  \o put_i16(r.api_keys[i].min_version)
                                  \o put_i16(r.api_keys[i].max_version) \o << 0 >>])
                   \o put_i32(r.throttle_time_ms) \o << 0 >>


\* --------------------------------------------------------------------- C29

\* C29: the encode of a tagged-fields map succeeds and writes the block of
\* its entries in ascending tag order (the one byte 0 for the empty map),
\* and the decode of what was written gives the map back.
C29_TaggedFieldsEmitted ==
    \A call \in CallsOf("tagged_fields_encode") :
        /\ call.res.st = "ok"
        /\ call.res.val = TaggedBlock(EntriesOf(call.arg))
        /\ TaggedFields_decode(call.res.val).val = call.arg


\* --------------------------------------------------------------------- C30

C32_StringDecodes ==
    \A call \in CallsOf("String_decode") :
        /\ call.res.st = "ok"
        /\ call.res.val = call.arg[1]
        /\ call.res.rest = call.arg[2]


\* ------------------------------------------------------- two connections

\* Two peers, each on a connection of its own.
Peers == {1, 2}

\* What the two peers send: a request that is answered, and one whose
\* handler fails.
PeerRequests == { Prefix(18, 0, 1) \o ClientNull, Prefix(10, 0, 7) \o ClientNull }

InitPeers ==
    /\ registry = KafkaServer_build.registry
    /\ registrations = KafkaServer_build.registrations
    /\ api_versions = KafkaServer_build.api_versions
    /\ calls = <<>>
    /\ pc = [c \in Peers |-> "idle"]
    /\ net = [c \in Peers |-> <<>>]
    /\ peer_fin = [c \in Peers |-> FALSE]
    /\ rbuf = [c \in Peers |-> <<>>]
    /\ is_readable = [c \in Peers |-> FALSE]
    /\ eof = [c \in Peers |-> FALSE]
    /\ message = [c \in Peers |-> <<>>]
    /\ wbuf = [c \in Peers |-> <<>>]
    /\ out = [c \in Peers |-> <<>>]
    /\ sent = [c \in Peers |-> <<>>]
    /\ frames = [c \in Peers |-> <<>>]
    /\ handled = [c \in Peers |-> <<>>]
    /\ responses = [c \in Peers |-> <<>>]

\* The peer goes away in the middle of a frame: the length prefix and the
\* first byte of a request are the last it writes.  The codec's decode_eof
\* will return an error for them.
PeerAborts(c) ==
    /\ pc[c] # "idle" /\ ~Ended(c) /\ ~peer_fin[c]
    /\ net[c] = <<>> /\ rbuf[c] = <<>>
    /\ net' = [net EXCEPT ![c] = Take(Wire(Prefix(18, 0, 1) \o ClientNull), 5)]
    /\ peer_fin' = [peer_fin EXCEPT ![c] = TRUE]
    /\ UNCHANGED << server, calls, pc, rbuf, is_readable, eof, message,
                    wbuf, out, sent, frames, handled, responses >>

\* stream.send(response).await.unwrap() when the write fails, the peer
\* having closed the connection: the Err is unwrapped and the task panics
\* with the response unwritten.
SendFails(c) ==
    /\ pc[c] = "flush" /\ peer_fin[c]
    /\ pc' = [pc EXCEPT ![c] = "panicked"]
    /\ UNCHANGED << server, calls, net, peer_fin, rbuf, is_readable, eof, message,
                    wbuf, out, sent, frames, handled, responses >>

NextPeers ==
    \E c \in DOMAIN pc :
        \/ Accept(c)
        \/ \E payload \in PeerRequests : PeerSend(c, payload)
        \/ PeerClose(c)
        \/ PeerAborts(c)
        \/ SocketRead(c)
        \/ FrameDecode(c)
        \/ HandleRequest(c)
        \/ Flush(c)
        \/ SendFails(c)

SpecPeers == InitPeers /\ [][NextPeers]_vars


\* --------------------------------------------------------------------- C31

\* All that belongs to connection c: its task, its socket, its buffers and
\* its history.
ConnectionOf(c) ==
    << pc[c], net[c], peer_fin[c], rbuf[c], is_readable[c], eof[c], message[c],
       wbuf[c], out[c], sent[c], frames[c], handled[c], responses[c] >>

=============================================================================
